---- MODULE Spec2Model ----
(***************************************************************************)
(* Model of pdgsubsurface: VRS resolution (geoid.use_model), CRS           *)
(* decomposition (utils.get_epsgs_from_wkt) and the source-CRS dispatch of *)
(* geoid.crs_to_wgs84.                                                     *)
(*                                                                         *)
(* A caller invokes one of the three functions with arbitrary arguments.   *)
(* Each action is one complete call; the state records its arguments,      *)
(* how it ended (return / raise), the value returned, the log records it   *)
(* emitted and the calls it made to the external pyproj capability.        *)
(***************************************************************************)
EXTENDS Integers, Sequences, FiniteSets, TLC

VARIABLES catalog, call, outcome, exc, ret, log, ext

vars == <<catalog, call, outcome, exc, ret, log, ext>>

----------------------------------------------------------------------------
(* Bounds *)

\* number of distinct non-empty hint strings a caller may pass
NumHints == 2
\* number of canonical model names the external catalogue knows
NumModels == 2
\* longest sub_crs_list of a compound CRS
MaxSub == 3
\* EPSG codes are 1..MaxEpsg
MaxEpsg == 2
\* number of distinct CRS display names
NumNames == 2

HintPool == <<"vrs_a", "vrs_b", "vrs_c", "vrs_d">>
ModelPool == <<"NAVD88", "EGM2008", "MLLW", "MHHW">>
NamePool == <<"crs_p", "crs_q", "crs_r", "crs_s">>

HintStrings == {HintPool[i] : i \in 1..NumHints}
ModelNames == {ModelPool[i] : i \in 1..NumModels}
CrsNames == {NamePool[i] : i \in 1..NumNames}
EpsgCodes == 1..MaxEpsg

----------------------------------------------------------------------------
(* Python values *)

\* Python's None where a str is expected
None == "<None>"
\* Python's None where an int is expected (to_epsg() of a CRS without a code)
NoneEpsg == -1
\* the int 0 returned in scenario 4, among str return values
Zero == "<int 0>"
\* no value reaches the caller (the call raised)
NoValue == "<no value>"

\* truth value of an Optional[str]: None and "" are false
truthy_str(s) == s # None /\ s # ""

\* truth value of an Optional[int]: None and 0 are false
truthy_int(e) == e # NoneEpsg /\ e # 0

LogRec(level, msg, args) == [level |-> level, msg |-> msg, args |-> args]

\* what a call hands back to its caller
Returned(value, l, e) ==
    [outcome |-> "return", exc |-> "", ret |-> value, log |-> l, ext |-> e]

Raised(exception, l, e) ==
    [outcome |-> "raise", exc |-> exception, ret |-> NoValue, log |-> l, ext |-> e]

----------------------------------------------------------------------------
(* geoid.use_model *)

\* pyegt.utils.model_search: a canonical model name, or None
model_search(vrs) == catalog[vrs]

\* variant: a matched user value wins over the detected VRS
use_model_las_user_wins(user_vrs, las_vrs, log0) ==
    LET vrs  == model_search(las_vrs)
        log1 == Append(log0, LogRec("debug", "after model_search(las_vrs): vrs=", <<vrs>>))
    IN  IF truthy_str(user_vrs) /\ truthy_str(model_search(user_vrs))
        THEN Returned(model_search(user_vrs), log1, <<>>)
        ELSE IF truthy_str(user_vrs) /\ ~truthy_str(vrs)
        THEN Raised("SystemExit",
                    Append(log1, LogRec("error", "No vertical reference system matching found", <<user_vrs>>)),
                    <<>>)
        ELSE Returned(vrs, log1, <<>>)

\* the branch taken when las_vrs is set
use_model_las(user_vrs, las_vrs, log0) ==
    LET vrs  == model_search(las_vrs)
        log1 == Append(log0, LogRec("debug", "after model_search(las_vrs): vrs=", <<vrs>>))
        log2 == IF truthy_str(user_vrs) /\ truthy_str(vrs)
                THEN Append(log1, LogRec("info", "User value will be overridden by detected VRS", <<user_vrs, vrs>>))
                ELSE log1
    IN  IF truthy_str(user_vrs) /\ ~truthy_str(vrs)
        THEN Raised("SystemExit",
                    Append(log2, LogRec("error", "No vertical reference system matching found", <<user_vrs>>)),
                    <<>>)
        ELSE LET log3 == IF ~truthy_str(user_vrs) /\ ~truthy_str(vrs)
                         THEN Append(log2, LogRec("error", "No vertical reference system matching found", <<las_vrs>>))
                         ELSE log2
             IN  Returned(vrs, log3, <<>>)

\* variant: scenario 4 hands back None instead of 0
use_model_user_none(user_vrs, log0) ==
    IF ~truthy_str(user_vrs)
    THEN Returned(None, log0, <<>>)
    ELSE LET vrs  == model_search(user_vrs)
             log1 == Append(log0, LogRec("debug", "after model_search(user_vrs): vrs=", <<vrs>>))
         IN  IF truthy_str(vrs)
             THEN Returned(vrs, Append(log1, LogRec("info", "VRS found (user-specified)", <<vrs>>)), <<>>)
             ELSE Raised("SystemExit",
                         Append(log1, LogRec("error", "Could not find VRS matching value", <<user_vrs>>)),
                         <<>>)

\* the branch taken when las_vrs is not set
use_model_user(user_vrs, log0) ==
    IF ~truthy_str(user_vrs)
    THEN Returned(Zero, log0, <<>>)
    ELSE LET vrs  == model_search(user_vrs)
             log1 == Append(log0, LogRec("debug", "after model_search(user_vrs): vrs=", <<vrs>>))
         IN  IF truthy_str(vrs)
             THEN Returned(vrs, Append(log1, LogRec("info", "VRS found (user-specified)", <<vrs>>)), <<>>)
             ELSE Raised("SystemExit",
                         Append(log1, LogRec("error", "Could not find VRS matching value", <<user_vrs>>)),
                         <<>>)

use_model(user_vrs, las_vrs) ==
    LET log0 == <<LogRec("debug", "user_vrs=, las_vrs=", <<user_vrs, las_vrs>>)>>
    IN  IF truthy_str(las_vrs)
        THEN use_model_las(user_vrs, las_vrs, log0)
        ELSE use_model_user(user_vrs, log0)

\* values a caller can pass for a hint: None, "" or a non-empty string
Hints == {None, ""} \cup HintStrings

----------------------------------------------------------------------------
(* utils.get_epsgs_from_wkt *)

\* a sub-system as pyproj reports it: is_vertical, to_epsg(), name
SubCrs == [is_vertical : BOOLEAN, epsg : {NoneEpsg} \cup EpsgCodes, name : CrsNames]

\* sub_crs_list of a compound CRS, in input order
SubCrsLists == UNION {[1..n -> SubCrs] : n \in 2..MaxSub}

\* CRS handles CRS.from_wkt can produce
SingleCrs ==
    {[is_compound |-> FALSE, is_vertical |-> c.is_vertical, epsg |-> c.epsg,
      name |-> c.name, sub_crs_list |-> <<>>] : c \in SubCrs}

CompoundCrs ==
    {[is_compound |-> TRUE, is_vertical |-> (\E i \in DOMAIN s : s[i].is_vertical),
      epsg |-> NoneEpsg, name |-> "compound", sub_crs_list |-> s] : s \in SubCrsLists}

\* a WKT string, by what the parser makes of it
Wkts == {[parses |-> FALSE, crs |-> None]}
            \cup {[parses |-> TRUE, crs |-> c] : c \in SingleCrs \cup CompoundCrs}

\* epsg_h, epsg_v = None, None; h_name, v_name = None, None
EmptySlots == [epsg_h |-> NoneEpsg, epsg_v |-> NoneEpsg, h_name |-> None, v_name |-> None]

\* variant: a slot already filled is kept (first sub-system wins)
classify_first_wins(slots, c) ==
    IF c.is_vertical
    THEN IF slots.v_name = None
         THEN [slots EXCEPT !.epsg_v = c.epsg, !.v_name = c.name] ELSE slots
    ELSE IF slots.h_name = None
         THEN [slots EXCEPT !.epsg_h = c.epsg, !.h_name = c.name] ELSE slots

\* body of the loop over crs.sub_crs_list
classify(slots, c) ==
    IF c.is_vertical
    THEN [slots EXCEPT !.epsg_v = c.epsg, !.v_name = c.name]
    ELSE [slots EXCEPT !.epsg_h = c.epsg, !.h_name = c.name]

RECURSIVE classify_all(_, _)
\* for c in crs.sub_crs_list
classify_all(slots, subs) ==
    IF subs = <<>> THEN slots
    ELSE classify_all(classify(slots, Head(subs)), Tail(subs))

\* variant: the two slots are swapped
classify_single_swapped(crs) ==
    IF crs.is_vertical
    THEN [EmptySlots EXCEPT !.epsg_h = crs.epsg, !.h_name = crs.name]
    ELSE [EmptySlots EXCEPT !.epsg_v = crs.epsg, !.v_name = crs.name]

\* the branch for a CRS that is not compound
classify_single(crs) ==
    IF crs.is_vertical
    THEN [EmptySlots EXCEPT !.epsg_v = crs.epsg, !.v_name = crs.name]
    ELSE [EmptySlots EXCEPT !.epsg_h = crs.epsg, !.h_name = crs.name]

\* log records of the compound branch, before the loop
compound_lines(crs) ==
    <<LogRec("info", "Found compound coordinate system (COMPD_CS): entries", <<Len(crs.sub_crs_list)>>)>>
    \o (IF Len(crs.sub_crs_list) > 2
        THEN <<LogRec("warning", "More than 2 entries in a compound coordinate system may cause an unwanted override!", <<>>)>>
        ELSE <<>>)

\* variant: a line for every slot that has a name
found_lines_by_name(slots) ==
    (IF slots.h_name # None
     THEN <<LogRec("info", "Found horizontal EPSG", <<slots.epsg_h, slots.h_name>>)>> ELSE <<>>)
    \o (IF slots.v_name # None
        THEN <<LogRec("info", "Found vertical EPSG", <<slots.epsg_v, slots.v_name>>)>> ELSE <<>>)

\* the 'Found ... EPSG' lines after classification
found_lines(slots) ==
    (IF truthy_int(slots.epsg_h)
     THEN <<LogRec("info", "Found horizontal EPSG", <<slots.epsg_h, slots.h_name>>)>> ELSE <<>>)
    \o (IF truthy_int(slots.epsg_v)
        THEN <<LogRec("info", "Found vertical EPSG", <<slots.epsg_v, slots.v_name>>)>> ELSE <<>>)

\* everything after crs = CRS.from_wkt(wkt) succeeded
decompose(crs) ==
    LET slots == IF crs.is_compound
                 THEN classify_all(EmptySlots, crs.sub_crs_list)
                 ELSE classify_single(crs)
        log1  == IF crs.is_compound THEN compound_lines(crs) ELSE <<>>
    IN  Returned([crs |-> crs, epsg_h |-> slots.epsg_h, epsg_v |-> slots.epsg_v,
                  h_name |-> slots.h_name, v_name |-> slots.v_name],
                 log1 \o found_lines(slots), <<"CRS.from_wkt">>)

\* variant: a rejected WKT is swallowed and the initial tuple returned
get_epsgs_from_wkt_swallow(wkt) ==
    IF ~wkt.parses
    THEN Returned([crs |-> None, epsg_h |-> NoneEpsg, epsg_v |-> NoneEpsg,
                   h_name |-> None, v_name |-> None], <<>>, <<"CRS.from_wkt">>)
    ELSE decompose(wkt.crs)

get_epsgs_from_wkt(wkt) ==
    IF ~wkt.parses
    THEN Raised("CRSError", <<>>, <<"CRS.from_wkt">>)
    ELSE decompose(wkt.crs)

----------------------------------------------------------------------------
(* geoid.crs_to_wgs84 *)

\* a from_crs argument: its Python type, whether a str contains "AUTHORITY",
\* and whether pyproj accepts it
FromCrs ==
    {[type |-> "int", authority |-> FALSE, valid |-> v] : v \in BOOLEAN}
    \cup {[type |-> "CRS", authority |-> FALSE, valid |-> TRUE]}
    \cup {[type |-> "str", authority |-> a, valid |-> v] : a \in BOOLEAN, v \in BOOLEAN}
    \cup {[type |-> t, authority |-> FALSE, valid |-> FALSE] : t \in {"float", "bool", "NoneType"}}

\* variant: isinstance(from_crs, int), which a bool satisfies
dispatch_isinstance(from_crs) ==
    IF from_crs.type \in {"int", "bool"} THEN "CRS.from_epsg"
    ELSE IF from_crs.type = "CRS" THEN "as is"
    ELSE IF from_crs.type = "str"
         THEN IF from_crs.authority THEN "CRS.from_wkt" ELSE "CRS.from_string"
    ELSE "unbound"

\* the if/elif chain on type(from_crs): the constructor that binds crs,
\* "as is" for a CRS object, "unbound" when no branch binds crs
dispatch(from_crs) ==
    IF from_crs.type = "int" THEN "CRS.from_epsg"
    ELSE IF from_crs.type = "CRS" THEN "as is"
    ELSE IF from_crs.type = "str"
         THEN IF from_crs.authority THEN "CRS.from_wkt" ELSE "CRS.from_string"
    ELSE "unbound"

\* xy_ok: float(x) and float(y) succeed
crs_to_wgs84(xy_ok, from_crs) ==
    LET d  == dispatch(from_crs)
        e1 == IF d \in {"as is", "unbound"} THEN <<>> ELSE <<d>>
        e2 == Append(e1, "CRS.from_epsg(4326)")
        e3 == Append(e2, "Transformer.from_crs")
    IN  IF d \notin {"as is", "unbound"} /\ ~from_crs.valid
        THEN Raised("CRSError", <<>>, e1)
        ELSE IF d = "unbound"
        THEN Raised("UnboundLocalError", <<>>, e2)
        ELSE IF ~xy_ok
        THEN Raised("ValueError", <<>>, e3)
        ELSE Returned("<lat, lon>", <<>>, Append(e3, "Transformer.transform"))

----------------------------------------------------------------------------
(* The caller *)

\* the external catalogue: each hint string matches one model or none
Catalogs == [HintStrings -> ModelNames \cup {None}]

Init ==
    /\ catalog \in Catalogs
    /\ call = [fn |-> "none"]
    /\ outcome = "init"
    /\ exc = ""
    /\ ret = NoValue
    /\ log = <<>>
    /\ ext = <<>>

\* The functions read and write no module-level state, so a call cannot see
\* an earlier one: a behaviour is one call made from the initial state.
Ready == call.fn = "none"

Apply(c, r) ==
    /\ call' = c
    /\ outcome' = r.outcome
    /\ exc' = r.exc
    /\ ret' = r.ret
    /\ log' = r.log
    /\ ext' = r.ext
    /\ UNCHANGED catalog

UseModel ==
    /\ Ready
    /\ \E u \in Hints, l \in Hints :
          Apply([fn |-> "use_model", user_vrs |-> u, las_vrs |-> l], use_model(u, l))

GetEpsgsFromWkt ==
    /\ Ready
    /\ \E w \in Wkts :
          Apply([fn |-> "get_epsgs_from_wkt", wkt |-> w], get_epsgs_from_wkt(w))

CrsToWgs84 ==
    /\ Ready
    /\ \E ok \in BOOLEAN, f \in FromCrs :
          Apply([fn |-> "crs_to_wgs84", xy_ok |-> ok, from_crs |-> f], crs_to_wgs84(ok, f))

Next == UseModel \/ GetEpsgsFromWkt \/ CrsToWgs84

Spec == Init /\ [][Next]_vars

----------------------------------------------------------------------------
(* Properties of use_model *)

IsUseModel == call.fn = "use_model"

\* the hint is a non-empty string
Present(h) == h # None /\ h # ""

\* the hint is present and the catalogue has a model for it
Matched(h) == Present(h) /\ catalog[h] # None

\* the hint is present and the catalogue has no model for it
Unmatched(h) == Present(h) /\ catalog[h] = None

Failed == outcome = "raise" /\ exc = "SystemExit"

\* C1: whenever las_vrs is present and the catalogue has no match for it,
\* use_model ends in exit(1), whatever user_vrs is (scenarios 7, 8, 9); it
\* never returns to the caller.
C1_UnmatchedLasAlwaysFails ==
    (IsUseModel /\ Unmatched(call.las_vrs)) => Failed

\* C2: whenever las_vrs is present and matched, use_model returns exactly the
\* catalogue's name for las_vrs, for every user_vrs (scenarios 1, 2, 3).
C2_MatchedLasIsReturned ==
    (IsUseModel /\ Matched(call.las_vrs))
        => (outcome = "return" /\ ret = catalog[call.las_vrs])

\* scenario 1 with the two hints matching different models
C2_Witness ==
    /\ IsUseModel
    /\ Matched(call.las_vrs)
    /\ Matched(call.user_vrs)
    /\ catalog[call.user_vrs] # catalog[call.las_vrs]
    /\ outcome = "return"
    /\ ret = catalog[call.las_vrs]

\* C3: with las_vrs absent, use_model returns 0 when user_vrs is absent too,
\* returns the catalogue's name for user_vrs when it matches, and ends in
\* exit(1) when user_vrs is present and unmatched (scenarios 4, 5, 6).
C3_LasAbsent ==
    (IsUseModel /\ ~Present(call.las_vrs)) =>
        /\ ~Present(call.user_vrs) => (outcome = "return" /\ ret = Zero)
        /\ Matched(call.user_vrs) => (outcome = "return" /\ ret = catalog[call.user_vrs])
        /\ Unmatched(call.user_vrs) => Failed

\* scenario 5: no las_vrs, a matched user_vrs, its model returned
C3_Witness ==
    /\ IsUseModel
    /\ ~Present(call.las_vrs)
    /\ Matched(call.user_vrs)
    /\ outcome = "return"
    /\ ret = catalog[call.user_vrs]

\* C4: every call of use_model ends in exactly one of: a canonical model name
\* the catalogue matched to one of the two hints, the sentinel 0, or exit(1);
\* no other value is ever returned.
C4_ThreeOutcomes ==
    IsUseModel =>
        \/ Failed
        \/ outcome = "return" /\ ret = Zero
        \/ /\ outcome = "return"
           /\ ret \in ModelNames
           /\ \E h \in {call.user_vrs, call.las_vrs} : Matched(h) /\ ret = catalog[h]

\* the log has a record of that level and message
Logged(level, msg) ==
    \E i \in DOMAIN log : log[i].level = level /\ log[i].msg = msg

\* C9: every branch of use_model emits a message of the class of its outcome:
\* an override notice in scenarios 1 and 2, a notice naming the resolved model
\* in scenarios 3 and 5, an error naming a hint that could not be matched in
\* scenarios 6 to 9; and an error is logged exactly when the call fails.
C9_NoticeMatchesOutcome ==
    IsUseModel =>
        /\ (Matched(call.las_vrs) /\ Present(call.user_vrs))
              => Logged("info", "User value will be overridden by detected VRS")
        /\ (\/ Matched(call.las_vrs) /\ ~Present(call.user_vrs)
            \/ ~Present(call.las_vrs) /\ Matched(call.user_vrs))
              => \E i \in DOMAIN log :
                    /\ log[i].level # "error"
                    /\ \E k \in DOMAIN log[i].args : log[i].args[k] = ret
                    /\ ret \in ModelNames
        /\ (\/ Unmatched(call.las_vrs)
            \/ ~Present(call.las_vrs) /\ Unmatched(call.user_vrs))
              => \E i \in DOMAIN log :
                    /\ log[i].level = "error"
                    /\ \E h \in {call.user_vrs, call.las_vrs} :
                          Unmatched(h) /\ log[i].args = <<h>>
        /\ (\E i \in DOMAIN log : log[i].level = "error") <=> Failed

----------------------------------------------------------------------------
(* Properties of get_epsgs_from_wkt *)

IsDecompose == call.fn = "get_epsgs_from_wkt"

Parsed == IsDecompose /\ call.wkt.parses

\* positions of the sub-systems whose vertical flag is v
Flagged(subs, v) == {i \in DOMAIN subs : subs[i].is_vertical = v}

\* the last position in a non-empty set of positions
Last(S) == CHOOSE i \in S : \A j \in S : j <= i

\* the (EPSG, name) pair a slot must hold given the sub-systems flagged for it
SlotOfLast(subs, v) ==
    IF Flagged(subs, v) = {} THEN <<NoneEpsg, None>>
    ELSE <<subs[Last(Flagged(subs, v))].epsg, subs[Last(Flagged(subs, v))].name>>

\* C5: a compound CRS of any length is accepted; the vertical slot holds the
\* EPSG and name of the last vertical sub-system, the horizontal slot those of
\* the last non-vertical one; the warning is logged iff there are more than
\* two sub-systems.
C5_CompoundLastWins ==
    (Parsed /\ call.wkt.crs.is_compound) =>
        LET subs == call.wkt.crs.sub_crs_list
        IN  /\ outcome = "return"
            /\ <<ret.epsg_v, ret.v_name>> = SlotOfLast(subs, TRUE)
            /\ <<ret.epsg_h, ret.h_name>> = SlotOfLast(subs, FALSE)
            /\ Logged("warning", "More than 2 entries in a compound coordinate system may cause an unwanted override!")
                  <=> Len(subs) > 2

\* three sub-systems, the first and last vertical and different in code and
\* name: the warning is logged and the last one fills the vertical slot
C5_Witness ==
    /\ Parsed
    /\ call.wkt.crs.is_compound
    /\ LET subs == call.wkt.crs.sub_crs_list
       IN  /\ Len(subs) = 3
           /\ subs[1].is_vertical /\ ~subs[2].is_vertical /\ subs[3].is_vertical
           /\ subs[1].epsg # subs[3].epsg
           /\ subs[1].name # subs[3].name
           /\ ret.epsg_v = subs[3].epsg
           /\ ret.v_name = subs[3].name
           /\ ret.h_name = subs[2].name
    /\ Logged("warning", "More than 2 entries in a compound coordinate system may cause an unwanted override!")

\* C6: a non-compound CRS fills exactly one slot, chosen by its vertical flag:
\* that slot holds its EPSG and name, the other keeps None and no name.
C6_SingleOneSlot ==
    (Parsed /\ ~call.wkt.crs.is_compound) =>
        LET crs == call.wkt.crs
        IN  /\ outcome = "return"
            /\ crs.is_vertical =>
                  /\ ret.epsg_v = crs.epsg /\ ret.v_name = crs.name
                  /\ ret.epsg_h = NoneEpsg /\ ret.h_name = None
            /\ ~crs.is_vertical =>
                  /\ ret.epsg_h = crs.epsg /\ ret.h_name = crs.name
                  /\ ret.epsg_v = NoneEpsg /\ ret.v_name = None

\* a vertical CRS with an EPSG code, returned in the vertical slot
C6_Witness ==
    /\ Parsed
    /\ ~call.wkt.crs.is_compound
    /\ call.wkt.crs.is_vertical
    /\ call.wkt.crs.epsg \in EpsgCodes
    /\ outcome = "return"
    /\ ret.epsg_v = call.wkt.crs.epsg
    /\ ret.h_name = None

\* C7: when the parser rejects the WKT the call raises the parser's error:
\* nothing is returned and nothing was logged.
C7_RejectedWktRaises ==
    (IsDecompose /\ ~call.wkt.parses) =>
        /\ outcome = "raise"
        /\ exc = "CRSError"
        /\ ret = NoValue
        /\ log = <<>>

C7_Witness ==
    /\ IsDecompose
    /\ ~call.wkt.parses
    /\ exc = "CRSError"
    /\ ext = <<"CRS.from_wkt">>

\* number of log records with that message
Lines(msg) == Cardinality({i \in DOMAIN log : log[i].msg = msg})

\* C10 as stated: one 'Found' line for each slot some sub-system populated
\* (also when that sub-system has no EPSG code), none for an empty slot.
C10_LinePerPopulatedSlot ==
    (Parsed /\ outcome = "return") =>
        /\ Lines("Found horizontal EPSG") = (IF ret.h_name # None THEN 1 ELSE 0)
        /\ Lines("Found vertical EPSG") = (IF ret.v_name # None THEN 1 ELSE 0)

\* C10 amended: one 'Found' line, naming code and name, for each slot whose
\* EPSG code is present; none for a slot without a code, populated or not.
C10_LinePerSlotWithCode ==
    (Parsed /\ outcome = "return") =>
        /\ Lines("Found horizontal EPSG") = (IF ret.epsg_h \in EpsgCodes THEN 1 ELSE 0)
        /\ Lines("Found vertical EPSG") = (IF ret.epsg_v \in EpsgCodes THEN 1 ELSE 0)
        /\ \A i \in DOMAIN log :
              /\ log[i].msg = "Found horizontal EPSG"
                    => (log[i].level = "info" /\ log[i].args = <<ret.epsg_h, ret.h_name>>)
              /\ log[i].msg = "Found vertical EPSG"
                    => (log[i].level = "info" /\ log[i].args = <<ret.epsg_v, ret.v_name>>)
        /\ (ret.h_name = None) => Lines("Found horizontal EPSG") = 0
        /\ (ret.v_name = None) => Lines("Found vertical EPSG") = 0

\* a horizontal slot populated without a code (no line) next to a vertical
\* slot with a code (one line)
C10_Witness ==
    /\ Parsed
    /\ outcome = "return"
    /\ ret.h_name # None /\ ret.epsg_h = NoneEpsg
    /\ ret.epsg_v \in EpsgCodes
    /\ Lines("Found horizontal EPSG") = 0
    /\ Lines("Found vertical EPSG") = 1

----------------------------------------------------------------------------
(* Properties of crs_to_wgs84 *)

IsToWgs84 == call.fn = "crs_to_wgs84"

\* the external call was made
Called(name) == \E i \in DOMAIN ext : ext[i] = name

\* the pyproj constructors that can resolve from_crs
Resolvers == {"CRS.from_epsg", "CRS.from_wkt", "CRS.from_string"}

\* C8: an int is resolved as an EPSG code, a CRS object is used as is, a str
\* is parsed as WKT exactly when it contains the authority marker; any other
\* type makes the call raise before a transformer is requested.
C8_Dispatch ==
    IsToWgs84 =>
        LET f == call.from_crs
        IN  /\ f.type = "int" => (ext[1] = "CRS.from_epsg" /\ ~Called("CRS.from_wkt") /\ ~Called("CRS.from_string"))
            /\ f.type = "CRS" => (\A r \in Resolvers : ~Called(r))
            /\ f.type = "str" => /\ Called("CRS.from_wkt") <=> f.authority
                                 /\ Called("CRS.from_string") <=> ~f.authority
                                 /\ ~Called("CRS.from_epsg")
            /\ f.type \notin {"int", "CRS", "str"} =>
                  /\ outcome = "raise"
                  /\ exc = "UnboundLocalError"
                  /\ \A r \in Resolvers : ~Called(r)
                  /\ ~Called("Transformer.from_crs")
                  /\ ~Called("Transformer.transform")

\* a bool, which is not an int for type(): the call raised, no transformer
C8_Witness ==
    /\ IsToWgs84
    /\ call.from_crs.type = "bool"
    /\ exc = "UnboundLocalError"
    /\ ~Called("Transformer.from_crs")

====
